---------------------------- MODULE Spec2Model ----------------------------
(***************************************************************************)
(* A model of face-tracker.js: the gaze quantizer (clamp, quantizeToGrid,  *)
(* sanitize, gridToFilename), the per-container tracker instances          *)
(* (setFromClient, handleMouseMove, handleTouch, handleOrientation,        *)
(* enableOrientation, disableOrientation) and the page-level motion        *)
(* button with its asynchronous permission request.                        *)
(*                                                                         *)
(* JavaScript numbers are modelled as exact rationals n/d extended with    *)
(* NaN, +Infinity and -Infinity, so that division by a zero-sized          *)
(* rectangle, NaN propagation through Math.min/Math.max/Math.round and     *)
(* Number.prototype.toFixed behave as in the language.  The sign of zero   *)
(* is not modelled: toFixed prints -0 as "0.0", and no denominator of the  *)
(* program can be -0.                                                      *)
(***************************************************************************)
EXTENDS Integers, Sequences, FiniteSets, TLC

(***************************************************************************)
(* Grid configuration, face-tracker.js lines 2-5.                          *)
(***************************************************************************)
P_MIN == -15
P_MAX == 15
STEP == 3
SIZE == 256

\* The tilt sensitivity divisor of handleOrientation (lines 102-103).
TILT_DIVISOR == 30

(***************************************************************************)
(* Bounds of the model.                                                    *)
(***************************************************************************)
\* Number of .face-tracker containers on the page.
NumInstances == 2
\* Pointer coordinates range over 0..MaxCoord on each axis.
MaxCoord == 4
\* Tilt angles range over the multiples of TILT_DIVISOR/2 up to MaxTilt of them.
MaxTilt == 1
\* Permission requests that may be outstanding at once.
MaxPending == 2
\* Numerators of the quantizer's probe inputs: v = n / QDen, |n| <= MaxQ.
MaxQ == 50
\* Edited grid configurations have a STEP in 1..MaxStep.
MaxStep == 4

Inst == 1..NumInstances

(***************************************************************************)
(* JavaScript numbers.                                                     *)
(***************************************************************************)
Num(n, d) == [k |-> "num", n |-> n, d |-> d]
I(n) == Num(n, 1)
NaN == [k |-> "nan", n |-> 0, d |-> 1]
PosInf == [k |-> "inf", n |-> 1, d |-> 1]
NegInf == [k |-> "inf", n |-> -1, d |-> 1]
\* A missing (undefined or null) property such as e.beta on some devices.
Null == [k |-> "null", n |-> 0, d |-> 1]

Sgn(n) == IF n > 0 THEN 1 ELSE IF n < 0 THEN -1 ELSE 0
Abs(n) == IF n < 0 THEN -n ELSE n

FNeg(a) == [a EXCEPT !.n = -a.n]

FAdd(a, b) ==
    IF a.k = "nan" \/ b.k = "nan" THEN NaN
    ELSE IF a.k = "inf" /\ b.k = "inf" THEN (IF a.n = b.n THEN a ELSE NaN)
    ELSE IF a.k = "inf" THEN a
    ELSE IF b.k = "inf" THEN b
    ELSE Num(a.n * b.d + b.n * a.d, a.d * b.d)

FSub(a, b) == FAdd(a, FNeg(b))

FMul(a, b) ==
    IF a.k = "nan" \/ b.k = "nan" THEN NaN
    ELSE IF a.k = "inf" \/ b.k = "inf"
         THEN (IF a.n = 0 \/ b.n = 0 THEN NaN
               ELSE IF Sgn(a.n) * Sgn(b.n) > 0 THEN PosInf ELSE NegInf)
    ELSE Num(a.n * b.n, a.d * b.d)

FDiv(a, b) ==
    IF a.k = "nan" \/ b.k = "nan" THEN NaN
    ELSE IF a.k = "inf" /\ b.k = "inf" THEN NaN
    ELSE IF a.k = "inf" THEN (IF Sgn(a.n) * Sgn(b.n) < 0 THEN NegInf ELSE PosInf)
    ELSE IF b.k = "inf" THEN I(0)
    ELSE IF b.n = 0 THEN (IF a.n = 0 THEN NaN
                          ELSE IF a.n > 0 THEN PosInf ELSE NegInf)
    ELSE Num(a.n * b.d * Sgn(b.n), a.d * Abs(b.n))

\* a < b for two numbers that are not NaN.
FLess(a, b) ==
    IF a.k = "inf" THEN a.n < 0 /\ ~(b.k = "inf" /\ b.n < 0)
    ELSE IF b.k = "inf" THEN b.n > 0
    ELSE a.n * b.d < b.n * a.d

MathMin(a, b) ==
    IF a.k = "nan" \/ b.k = "nan" THEN NaN ELSE IF FLess(b, a) THEN b ELSE a

MathMax(a, b) ==
    IF a.k = "nan" \/ b.k = "nan" THEN NaN ELSE IF FLess(a, b) THEN b ELSE a

\* Variant of MathRound: ties away from zero.
MathRoundHalfAway(a) ==
    IF a.k # "num" THEN a
    ELSE I(Sgn(a.n) * ((2 * Abs(a.n) + a.d) \div (2 * a.d)))

\* Math.round: the integer nearest to x, ties towards +Infinity, that is
\* floor(x + 1/2); NaN and the infinities are returned unchanged.
MathRound(a) ==
    IF a.k # "num" THEN a ELSE I((2 * a.n + a.d) \div (2 * a.d))

\* v || 0 : undefined, null, NaN and 0 are falsy.
OrZero(v) == IF v.k = "null" \/ v.k = "nan" \/ v.n = 0 THEN I(0) ELSE v

(***************************************************************************)
(* The quantizer, lines 7-15.                                              *)
(***************************************************************************)
\* Variant of clamp: the upper limit is not applied.
clampNoUpper(value, min, max) == MathMax(min, value)

clamp(value, min, max) == MathMax(min, MathMin(max, value))

\* Variant of quantizeToGrid: the snapped value is returned unclamped.
quantizeUnclamped(val) ==
    LET raw == FAdd(I(P_MIN), FDiv(FMul(FAdd(val, I(1)), I(P_MAX - P_MIN)), I(2)))
    IN  FMul(MathRound(FDiv(raw, I(STEP))), I(STEP))

\* Variant of quantizeToGrid: [-1, 1] is mapped without the shift by 1.
quantizeNoShift(val) ==
    LET raw == FAdd(I(P_MIN), FDiv(FMul(val, I(P_MAX - P_MIN)), I(2)))
        snapped == FMul(MathRound(FDiv(raw, I(STEP))), I(STEP))
    IN  clamp(snapped, I(P_MIN), I(P_MAX))

quantizeToGrid(val) ==
    LET raw == FAdd(I(P_MIN), FDiv(FMul(FAdd(val, I(1)), I(P_MAX - P_MIN)), I(2)))
        snapped == FMul(MathRound(FDiv(raw, I(STEP))), I(STEP))
    IN  clamp(snapped, I(P_MIN), I(P_MAX))

(***************************************************************************)
(* Strings are sequences of one-character strings while they are edited,   *)
(* and are joined into a string once built.                                *)
(***************************************************************************)
DigitChar(k) == <<"0", "1", "2", "3", "4", "5", "6", "7", "8", "9">>[k + 1]

RECURSIVE Digits(_)
Digits(n) == IF n < 10 THEN <<DigitChar(n)>>
             ELSE Digits(n \div 10) \o <<DigitChar(n % 10)>>

RECURSIVE Join(_)
Join(s) == IF s = <<>> THEN "" ELSE Head(s) \o Join(Tail(s))

\* Number.prototype.toFixed(1).
ToFixed1(a) ==
    IF a.k = "nan" THEN <<"N", "a", "N">>
    ELSE IF a.k = "inf"
         THEN (IF a.n < 0 THEN <<"-">> ELSE <<>>)
              \o <<"I", "n", "f", "i", "n", "i", "t", "y">>
    ELSE LET tenths == (20 * Abs(a.n) + a.d) \div (2 * a.d)
         IN  (IF a.n < 0 THEN <<"-">> ELSE <<>>)
             \o Digits(tenths \div 10) \o <<".">> \o <<DigitChar(tenths % 10)>>

\* String.prototype.replace with a string pattern: the first occurrence only.
RECURSIVE ReplaceFirst(_, _, _)
ReplaceFirst(s, from, to) ==
    IF s = <<>> THEN <<>>
    ELSE IF Head(s) = from THEN <<to>> \o Tail(s)
    ELSE <<Head(s)>> \o ReplaceFirst(Tail(s), from, to)

\* Variant of sanitize: the decimal point is kept.
sanitizeKeepsPoint(val) == ReplaceFirst(ToFixed1(val), "-", "m")

\* Lines 17-20.
sanitize(val) ==
    LET str == ToFixed1(val)
    IN  ReplaceFirst(ReplaceFirst(str, "-", "m"), ".", "p")

\* Variant of gridToFilename: the sign of each coordinate is dropped.
gridToFilenameUnsigned(px, py) ==
    "gaze_px" \o Join(sanitize(I(Abs(px.n)))) \o "_py" \o Join(sanitize(I(Abs(py.n))))
        \o "_" \o Join(Digits(SIZE)) \o ".webp"

\* Lines 22-24.
gridToFilename(px, py) ==
    "gaze_px" \o Join(sanitize(px)) \o "_py" \o Join(sanitize(py))
        \o "_" \o Join(Digits(SIZE)) \o ".webp"


(***************************************************************************)
(* The page: its .face-tracker containers, each with the rectangle that    *)
(* getBoundingClientRect reports and its data-base-path attribute ("" when *)
(* absent).  The first has a positive size, the second has no width (an    *)
(* empty or hidden container), the third is offset and not square.         *)
(***************************************************************************)
Containers ==
    << [left |-> 0, top |-> 0, width |-> 4, height |-> 4, dataset |-> ""],
       [left |-> 2, top |-> 0, width |-> 0, height |-> 4, dataset |-> "/img/"],
       [left |-> 1, top |-> 2, width |-> 2, height |-> 4, dataset |-> ""] >>

container(i) == Containers[((i - 1) % Len(Containers)) + 1]

\* Line 32.
basePath(i) == IF container(i).dataset = "" THEN "/faces/" ELSE container(i).dataset

(***************************************************************************)
(* Inputs of the model.                                                    *)
(***************************************************************************)
\* clientX, clientY of a mouse or touch sample: the pointer moves along the
\* horizontal axis, the vertical axis or the diagonal through the origin.
Coords == 0..MaxCoord
Points == {p \in [x : Coords, y : Coords] : p.x = 0 \/ p.y = 0 \/ p.x = p.y}

\* beta, gamma of an orientation reading: a number, NaN, or missing.  The
\* device is tilted about one axis, or about both by the same value.
Angles == {k * (TILT_DIVISOR \div 2) : k \in -MaxTilt..MaxTilt}
AngleVals == {I(a) : a \in Angles} \cup {NaN, Null}
Readings == {e \in [beta : AngleVals, gamma : AngleVals] :
                e.beta = I(0) \/ e.gamma = I(0) \/ e.beta = e.gamma}

\* The denominator of the quantizer's probe inputs: with it, raw / STEP is a
\* multiple of 1/2 for every probe input.
QDen == (P_MAX - P_MIN) \div STEP
QVals == {Num(n, QDen) : n \in -MaxQ..MaxQ} \cup {PosInf, NegInf}

\* The grid values of one axis.
Grid == {P_MIN + k * STEP : k \in 0..((P_MAX - P_MIN) \div STEP)}

None == [k |-> "none", n |-> 0, d |-> 1]

(***************************************************************************)
(* State.                                                                  *)
(***************************************************************************)
VARIABLES
    img,              \* img.src of each instance
    useOrientation,   \* line 47, per instance
    baseOrientation,  \* line 48, per instance
    hasCalibrated,    \* line 49, per instance
    isOrientationMode,\* line 149
    needsPermission,  \* DeviceOrientationEvent.requestPermission is a function
    pending,          \* permission requests awaited by click handlers
    notice,           \* the alert raised by the latest handler, or "none"
    ev,               \* the event handled by the latest step
    session,          \* per instance: the readings processed since enableOrientation
    clickedOff,       \* the latest click called disableOrientationMode
    fin,              \* arguments of a call of the quantizer or the encoder
    fout              \* <<>> before the call, <<result>> after it

vars == <<img, useOrientation, baseOrientation, hasCalibrated,
          isOrientationMode, needsPermission, pending, notice, ev, session,
          clickedOff, fin, fout>>

probe == <<fin, fout>>

Event(kind, a, b) == [kind |-> kind, a |-> a, b |-> b]

NoSession == [first |-> [beta |-> None, gamma |-> None], n |-> 0]

(***************************************************************************)
(* setFromClient, lines 51-69: the image path for a pointer position.      *)
(***************************************************************************)
\* Variant of setFromClient: the vertical axis is not inverted.
setFromClientUpright(i, clientX, clientY) ==
    LET r == container(i)
        centerX == FAdd(I(r.left), FDiv(I(r.width), I(2)))
        centerY == FAdd(I(r.top), FDiv(I(r.height), I(2)))
        nx == FDiv(FSub(clientX, centerX), FDiv(I(r.width), I(2)))
        ny == FDiv(FSub(clientY, centerY), FDiv(I(r.height), I(2)))
        px == quantizeToGrid(clamp(nx, I(-1), I(1)))
        py == quantizeToGrid(clamp(ny, I(-1), I(1)))
    IN  basePath(i) \o gridToFilename(px, py)

setFromClient(i, clientX, clientY) ==
    LET r == container(i)
        centerX == FAdd(I(r.left), FDiv(I(r.width), I(2)))
        centerY == FAdd(I(r.top), FDiv(I(r.height), I(2)))
        nx == FDiv(FSub(clientX, centerX), FDiv(I(r.width), I(2)))
        ny == FDiv(FSub(centerY, clientY), FDiv(I(r.height), I(2)))
        clampedX == clamp(nx, I(-1), I(1))
        clampedY == clamp(ny, I(-1), I(1))
        px == quantizeToGrid(clampedX)
        py == quantizeToGrid(clampedY)
    IN  basePath(i) \o gridToFilename(px, py)

\* setFromClient tabulated over the pointer positions of the model.
imageAt == [i \in Inst, p \in Points |-> setFromClient(i, I(p.x), I(p.y))] @@ <<>>

(***************************************************************************)
(* handleOrientation, lines 84-114, for one instance and one reading.      *)
(***************************************************************************)
\* Line 89: the baseline a reading calibrates.
baselineOf(e) == [beta |-> OrZero(e.beta), gamma |-> OrZero(e.gamma)]

\* Variant of orientationImage: the horizontal axis is not inverted.
orientationImageMirrored(i, e, base) ==
    LET beta == FSub(OrZero(e.beta), base.beta)
        gamma == FSub(OrZero(e.gamma), base.gamma)
        nx == clamp(FDiv(gamma, I(TILT_DIVISOR)), I(-1), I(1))
        ny == clamp(FDiv(FNeg(beta), I(TILT_DIVISOR)), I(-1), I(1))
        px == quantizeToGrid(nx)
        py == quantizeToGrid(ny)
    IN  basePath(i) \o gridToFilename(px, py)

\* Lines 96-110: the image path for the reading against baseline base.
orientationImage(i, e, base) ==
    LET beta == FSub(OrZero(e.beta), base.beta)
        gamma == FSub(OrZero(e.gamma), base.gamma)
        nx == clamp(FDiv(FNeg(gamma), I(TILT_DIVISOR)), I(-1), I(1))
        ny == clamp(FDiv(FNeg(beta), I(TILT_DIVISOR)), I(-1), I(1))
        px == quantizeToGrid(nx)
        py == quantizeToGrid(ny)
    IN  basePath(i) \o gridToFilename(px, py)

\* orientationImage tabulated over the readings and baselines of the model.
tiltImageAt ==
    [i \in Inst, e \in Readings, base \in {baselineOf(r) : r \in Readings} |->
        orientationImage(i, e, base)] @@ <<>>

\* Variant of calibrate: every reading is taken as the baseline.
calibrateAlways(i, e) == baselineOf(e)

\* Lines 88-91: the baseline after the reading.
calibrate(i, e) ==
    IF ~hasCalibrated[i] THEN baselineOf(e) ELSE baseOrientation[i]

\* The readings an instance has processed since it was enabled: the first
\* one, and whether there has been one (1) or more (2).
noteReading(i, e) ==
    IF session[i].n = 0 THEN [first |-> e, n |-> 1]
    ELSE [session[i] EXCEPT !.n = 2]

(***************************************************************************)
(* The state after DOMContentLoaded, lines 31-49, 122-124 and 138-149.     *)
(***************************************************************************)
\* Lines 123-124: the image is set from the centre of the container.
initialImage(i) ==
    LET r == container(i)
    IN  setFromClient(i, FAdd(I(r.left), FDiv(I(r.width), I(2))),
                         FAdd(I(r.top), FDiv(I(r.height), I(2))))

Loaded ==
    /\ needsPermission \in BOOLEAN
    /\ img = [i \in Inst |-> initialImage(i)]
    /\ useOrientation = [i \in Inst |-> FALSE]
    /\ baseOrientation = [i \in Inst |-> [beta |-> I(0), gamma |-> I(0)]]
    /\ hasCalibrated = [i \in Inst |-> FALSE]
    /\ isOrientationMode = FALSE
    /\ pending = 0
    /\ notice = "none"
    /\ ev = Event("load", None, None)
    /\ session = [i \in Inst |-> NoSession]
    /\ clickedOff = FALSE

Init ==
    /\ Loaded
    /\ fin = <<>>
    /\ fout = <<>>

(***************************************************************************)
(* Window events, lines 71-120.  One event runs the listener of every      *)
(* instance.                                                               *)
(***************************************************************************)
\* handleMouseMove, lines 71-73.
handleMouseMove(p) ==
    /\ img' = [i \in Inst |-> imageAt[i, p]]
    /\ ev' = Event("mousemove", I(p.x), I(p.y))
    /\ notice' = "none"
    /\ UNCHANGED <<needsPermission, probe, useOrientation, baseOrientation,
                   hasCalibrated, isOrientationMode, pending, session,
                   clickedOff>>

\* Variant of handleTouch: the orientation flag is left as it is.
handleTouchKeepsTilt(p) ==
    /\ img' = [i \in Inst |-> imageAt[i, p]]
    /\ ev' = Event("touch", I(p.x), I(p.y))
    /\ notice' = "none"
    /\ UNCHANGED <<needsPermission, probe, useOrientation, baseOrientation,
                   hasCalibrated, isOrientationMode, pending, session,
                   clickedOff>>

\* handleTouch, lines 75-82, for a touchstart or touchmove with a touch point.
handleTouch(p) ==
    /\ img' = [i \in Inst |-> imageAt[i, p]]
    /\ useOrientation' = [i \in Inst |-> FALSE]
    /\ session' = [i \in Inst |-> NoSession]
    /\ ev' = Event("touch", I(p.x), I(p.y))
    /\ notice' = "none"
    /\ UNCHANGED <<needsPermission, probe, baseOrientation, hasCalibrated,
                   isOrientationMode, pending,
                   clickedOff>>

\* handleTouch for an event whose touches list is missing or empty (line 76).
handleTouchEmpty ==
    /\ ev' = Event("touchempty", None, None)
    /\ notice' = "none"
    /\ UNCHANGED <<needsPermission, probe, img, useOrientation, baseOrientation,
                   hasCalibrated, isOrientationMode, pending, session,
                   clickedOff>>

\* Variant of handleOrientation: the reading is processed whatever the mode.
handleOrientationUnguarded(e) ==
    /\ baseOrientation' = [i \in Inst |-> calibrate(i, e)]
    /\ hasCalibrated' = [i \in Inst |-> TRUE]
    /\ img' = [i \in Inst |-> tiltImageAt[i, e, calibrate(i, e)]]
    /\ session' = [i \in Inst |-> noteReading(i, e)]
    /\ ev' = Event("deviceorientation", e.beta, e.gamma)
    /\ notice' = "none"
    /\ UNCHANGED <<needsPermission, probe, useOrientation, isOrientationMode,
                   pending, clickedOff>>

\* handleOrientation, lines 84-114.
handleOrientation(e) ==
    /\ baseOrientation' =
          [i \in Inst |-> IF useOrientation[i] THEN calibrate(i, e)
                          ELSE baseOrientation[i]]
    /\ hasCalibrated' = [i \in Inst |-> hasCalibrated[i] \/ useOrientation[i]]
    /\ img' = [i \in Inst |->
                  IF useOrientation[i] THEN tiltImageAt[i, e, calibrate(i, e)]
                  ELSE img[i]]
    /\ session' = [i \in Inst |-> IF useOrientation[i] THEN noteReading(i, e)
                                  ELSE session[i]]
    /\ ev' = Event("deviceorientation", e.beta, e.gamma)
    /\ notice' = "none"
    /\ UNCHANGED <<needsPermission, probe, useOrientation, isOrientationMode,
                   pending,
                   clickedOff>>

(***************************************************************************)
(* The motion button, lines 151-189.                                       *)
(***************************************************************************)
\* Variant of enableOrientationMode: the calibration is not reset.
enableKeepsCalibration ==
    /\ isOrientationMode' = TRUE
    /\ useOrientation' = [i \in Inst |-> TRUE]
    /\ session' = [i \in Inst |-> NoSession]
    /\ UNCHANGED hasCalibrated

\* Lines 128-131 for every instance, lines 177-182.
enableOrientationMode ==
    /\ isOrientationMode' = TRUE
    /\ useOrientation' = [i \in Inst |-> TRUE]
    /\ hasCalibrated' = [i \in Inst |-> FALSE]
    /\ session' = [i \in Inst |-> NoSession]

\* Lines 132-134 for every instance, lines 184-189.
disableOrientationMode ==
    /\ isOrientationMode' = FALSE
    /\ useOrientation' = [i \in Inst |-> FALSE]
    /\ session' = [i \in Inst |-> NoSession]
    /\ UNCHANGED hasCalibrated

\* The click handler up to its await or its end, lines 152-174.
click ==
    /\ ev' = Event("click", None, None)
    /\ notice' = "none"
    /\ IF ~isOrientationMode
       THEN IF needsPermission
            THEN /\ pending < MaxPending
                 /\ pending' = pending + 1
                 /\ UNCHANGED <<isOrientationMode, useOrientation, hasCalibrated,
                                session>>
            ELSE /\ enableOrientationMode
                 /\ UNCHANGED pending
       ELSE /\ disableOrientationMode
            /\ UNCHANGED pending
    /\ clickedOff' = isOrientationMode
    /\ UNCHANGED <<needsPermission, probe, img, baseOrientation>>

\* The awaited request resolves to 'granted', lines 158-159.
permissionGranted ==
    /\ pending > 0
    /\ pending' = pending - 1
    /\ enableOrientationMode
    /\ ev' = Event("granted", None, None)
    /\ notice' = "none"
    /\ UNCHANGED <<needsPermission, probe, img, baseOrientation,
                   clickedOff>>

\* Variant of permissionDenied: tilt mode is enabled whatever the answer.
permissionDeniedEnables ==
    /\ pending > 0
    /\ pending' = pending - 1
    /\ enableOrientationMode
    /\ ev' = Event("denied", None, None)
    /\ notice' = "Motion permission denied. Please enable it in your browser settings."
    /\ UNCHANGED <<needsPermission, probe, img, baseOrientation,
                   clickedOff>>

\* The awaited request resolves to another value, lines 160-162.
permissionDenied ==
    /\ pending > 0
    /\ pending' = pending - 1
    /\ ev' = Event("denied", None, None)
    /\ notice' = "Motion permission denied. Please enable it in your browser settings."
    /\ UNCHANGED <<needsPermission, probe, img, useOrientation, baseOrientation,
                   hasCalibrated, isOrientationMode, session,
                   clickedOff>>

\* The awaited request is rejected, lines 163-166.
permissionThrows ==
    /\ pending > 0
    /\ pending' = pending - 1
    /\ ev' = Event("threw", None, None)
    /\ notice' = "Error enabling motion tracking: "
    /\ UNCHANGED <<needsPermission, probe, img, useOrientation, baseOrientation,
                   hasCalibrated, isOrientationMode, session,
                   clickedOff>>

Next ==
    \/ \E p \in Points : handleMouseMove(p)
    \/ \E p \in Points : handleTouch(p)
    \/ handleTouchEmpty
    \/ \E e \in Readings : handleOrientation(e)
    \/ click
    \/ permissionGranted
    \/ permissionDenied
    \/ permissionThrows

Spec == Init /\ [][Next]_vars

(***************************************************************************)
(* The quantizer and the encoder on their own: a call with arguments drawn *)
(* from a bounded set.                                                     *)
(***************************************************************************)
tracker == <<img, useOrientation, baseOrientation, hasCalibrated,
             isOrientationMode, needsPermission, pending, notice, ev, session,
             clickedOff>>

\* Lines 62-63 and 105-106: each axis is quantized on its own.
quantize(x, y) == [px |-> quantizeToGrid(x), py |-> quantizeToGrid(y)]

QuantizeInit ==
    /\ Loaded
    /\ fin \in [x : QVals, y : QVals]
    /\ fout = <<>>

callQuantize ==
    /\ fout = <<>>
    /\ fout' = <<quantize(fin.x, fin.y)>>
    /\ UNCHANGED <<tracker, fin>>

SpecQuantize == QuantizeInit /\ [][callQuantize]_vars

\* Lines 65 and 108: the file name of a grid coordinate.
encode(c) == gridToFilename(I(c[1]), I(c[2]))

EncodeInit ==
    /\ Loaded
    /\ fin \in [a : Grid \X Grid, b : Grid \X Grid]
    /\ fout = <<>>

callEncode ==
    /\ fout = <<>>
    /\ fout' = <<[a |-> encode(fin.a), b |-> encode(fin.b)]>>
    /\ UNCHANGED <<tracker, fin>>

SpecEncode == EncodeInit /\ [][callEncode]_vars

(***************************************************************************)
(* Properties of the quantizer, checked under SpecQuantize.                *)
(***************************************************************************)
OnGrid(r) == r.k = "num" /\ r.d = 1 /\ r.n \in Grid

\* C1: for every real input x and y, inside or outside [-1, 1] (the
\* infinities included), quantize returns px and py that are each one of the
\* grid values -15, -12, ..., 12, 15.
C1_QuantizeOnGrid ==
    fout # <<>> =>
        /\ OnGrid(fout[1].px) /\ OnGrid(fout[1].py)
        /\ Grid = {-15, -12, -9, -6, -3, 0, 3, 6, 9, 12, 15}

\* An infinite x and an interior y that is not a grid point have been quantized.
C1_Witness ==
    /\ fout # <<>>
    /\ fin.x = PosInf /\ fin.y = Num(-3, QDen)
    /\ fout[1] = [px |-> I(15), py |-> I(-3)]

\* C6: an input v >= 1 gives P_MAX, an input v <= -1 gives P_MIN, and an
\* input outside [-1, 1] gives what its clamped value gives, on each axis,
\* without the caller clamping.
AxisClamps(v, r) ==
    /\ ~FLess(v, I(1)) => r = I(P_MAX)
    /\ ~FLess(I(-1), v) => r = I(P_MIN)
    /\ (FLess(I(1), v) \/ FLess(v, I(-1))) =>
           r = quantizeToGrid(clamp(v, I(-1), I(1)))

C6_ClampsInternally ==
    fout # <<>> => AxisClamps(fin.x, fout[1].px) /\ AxisClamps(fin.y, fout[1].py)

\* quantize(2, -5) has returned (15, -15).
C6_Witness ==
    /\ fout # <<>>
    /\ fin.x = Num(2 * QDen, QDen) /\ fin.y = Num(-5 * QDen, QDen)
    /\ fout[1] = [px |-> I(15), py |-> I(-15)]

\* For the probe input n / QDen, raw / STEP = A / B with
\* A = 2 * P_MIN * QDen + (n + QDen) * (P_MAX - P_MIN) and B = 2 * QDen * STEP.
\* The input is a half step when 2A / B is an odd integer 2k + 1.
TieA(n) == 2 * P_MIN * QDen + (n + QDen) * (P_MAX - P_MIN)
TieB == 2 * QDen * STEP
IsTie(v) == v.k = "num" /\ v.d = QDen /\ (2 * TieA(v.n)) % TieB = 0
                /\ ((2 * TieA(v.n)) \div TieB) % 2 = 1
\* The integer k below the half step k + 1/2.
TieFloor(v) == ((2 * TieA(v.n)) \div TieB - 1) \div 2

ClampInt(m) == IF m < P_MIN THEN P_MIN ELSE IF m > P_MAX THEN P_MAX ELSE m
\* k + 1/2 rounded half away from zero, and half to even.
HalfAway(k) == IF k >= 0 THEN k + 1 ELSE k
HalfEven(k) == IF k % 2 = 0 THEN k ELSE k + 1

\* C9 as stated: the half steps are snapped by one single rule, which is
\* round-half-away-from-zero or round-half-to-even: the two inputs of a call
\* are both snapped by the first rule or both by the second.
TieByAway(v, r) == IsTie(v) => r = I(ClampInt(HalfAway(TieFloor(v)) * STEP))
TieByEven(v, r) == IsTie(v) => r = I(ClampInt(HalfEven(TieFloor(v)) * STEP))

C9_Original ==
    fout # <<>> =>
        \/ TieByAway(fin.x, fout[1].px) /\ TieByAway(fin.y, fout[1].py)
        \/ TieByEven(fin.x, fout[1].px) /\ TieByEven(fin.y, fout[1].py)

\* C9 amended: every half step k + 1/2, positive or negative, is snapped
\* upwards, to (k + 1) * STEP (round half towards +Infinity).
TieUp(v, r) == IsTie(v) => r = I(ClampInt((TieFloor(v) + 1) * STEP))

C9_TiesRoundUp ==
    fout # <<>> => TieUp(fin.x, fout[1].px) /\ TieUp(fin.y, fout[1].py)

\* The half steps raw = -7.5 and raw = 7.5 have been snapped to -6 and 9.
C9_Witness ==
    /\ fout # <<>>
    /\ fin.x = Num(-5, QDen) /\ IsTie(fin.x) /\ TieFloor(fin.x) = -3
    /\ fin.y = Num(5, QDen) /\ IsTie(fin.y) /\ TieFloor(fin.y) = 2
    /\ fout[1] = [px |-> I(-6), py |-> I(9)]

(***************************************************************************)
(* Properties of the encoder, checked under SpecEncode.                    *)
(***************************************************************************)
\* v with one fractional digit, "-" written m and "." written p.
Encoded(v) == (IF v < 0 THEN "m" ELSE "") \o ToString(Abs(v)) \o "p0"
ExpectedName(c) == "gaze_px" \o Encoded(c[1]) \o "_py" \o Encoded(c[2]) \o "_256.webp"

\* C4: for every grid coordinate (px, py), encode returns the string
\* gaze_px<E(px)>_py<E(py)>_256.webp, E(v) being v with one fractional digit,
\* the minus sign written m and the decimal point written p.
C4_EncodeShape ==
    fout # <<>> =>
        /\ fout[1].a = ExpectedName(fin.a)
        /\ fout[1].b = ExpectedName(fin.b)
        /\ fin.a = <<0, 0>> => fout[1].a = "gaze_px0p0_py0p0_256.webp"
        /\ fin.a = <<-3, 15>> => fout[1].a = "gaze_pxm3p0_py15p0_256.webp"

\* encode(-3, 15) and encode(0, 0) have been computed.
C4_Witness ==
    /\ fout # <<>>
    /\ fin.a = <<-3, 15>> /\ fout[1].a = "gaze_pxm3p0_py15p0_256.webp"
    /\ fin.b = <<0, 0>> /\ fout[1].b = "gaze_px0p0_py0p0_256.webp"

\* C5: two grid coordinates have the same asset identifier if and only if
\* they are the same coordinate.
C5_EncodeInjective ==
    fout # <<>> => (fout[1].a = fout[1].b <=> fin.a = fin.b)

\* Two coordinates that differ only in a sign have been encoded differently.
C5_Witness ==
    /\ fout # <<>>
    /\ fin.a = <<-3, 15>> /\ fin.b = <<3, 15>>
    /\ fout[1].a # fout[1].b

(***************************************************************************)
(* Properties of the tracker and the motion button, checked under Spec.    *)
(***************************************************************************)
CenterImage(i) == basePath(i) \o "gaze_px0p0_py0p0_256.webp"
Reading(e) == [beta |-> e.a, gamma |-> e.b]
Tilting(i) == ev.kind = "deviceorientation" /\ useOrientation[i]

\* C2: after every enabling of tilt mode, the first orientation reading
\* processed becomes the baseline, and a reading equal to that first reading
\* yields the centre asset, whatever the absolute beta and gamma are.
C2_FirstReadingIsBaseline ==
    \A i \in Inst : Tilting(i) =>
        /\ session[i].n >= 1
        /\ session[i].n = 1 => Reading(ev) = session[i].first
        /\ hasCalibrated[i]
        /\ baseOrientation[i] = baselineOf(session[i].first)
        /\ Reading(ev) = session[i].first => img[i] = CenterImage(i)

\* A later reading equal to the first one, with both angles away from 0,
\* has been processed and the centre asset is displayed.
C2_Witness ==
    \E i \in Inst :
        /\ Tilting(i) /\ session[i].n = 2
        /\ Reading(ev) = session[i].first
        /\ ev.a = I(TILT_DIVISOR \div 2) /\ ev.b = I(TILT_DIVISOR \div 2)
        /\ img[i] = CenterImage(i)

\* C3 as stated: right after a touch or mouse sample, tilt mode is disabled.
C3_Original ==
    ev.kind \in {"mousemove", "touch"} => \A i \in Inst : ~useOrientation[i]

\* C3 amended: right after a touch sample with a touch point every instance
\* has tilt mode disabled, and an orientation reading received while an
\* instance has tilt mode disabled changes neither its image nor its mode.
C3_TouchCancelsTilt ==
    [][\A i \in Inst :
          /\ ev'.kind = "touch" => ~useOrientation'[i]
          /\ (ev'.kind = "deviceorientation" /\ ~useOrientation[i]) =>
                 img'[i] = img[i] /\ ~useOrientation'[i]]_vars

\* A touch has arrived while the page was in tilt mode: the page-level flag
\* is still set and the instances have left tilt mode.
C3_Witness ==
    /\ ev.kind = "touch"
    /\ isOrientationMode
    /\ \A i \in Inst : ~useOrientation[i]

\* C7: when the permission request is denied or throws, no instance enters
\* tilt mode and the page-level flag is unchanged (off when it was off), a
\* notice is shown, and pointer and touch samples go on setting the image.
Refused(e) == e.kind \in {"denied", "threw"}
PointOf(e) == [x |-> e.a.n, y |-> e.b.n]

C7_DenialKeepsPointerMode ==
    [][/\ Refused(ev') =>
            /\ useOrientation' = useOrientation
            /\ isOrientationMode' = isOrientationMode
            /\ ~isOrientationMode => \A i \in Inst : ~useOrientation'[i]
            /\ notice' # "none"
       /\ ev'.kind \in {"mousemove", "touch"} =>
            \A i \in Inst : img'[i] = imageAt[i, PointOf(ev')]]_vars

\* A denial has been answered with a notice, the page is out of tilt mode.
C7_Witness ==
    /\ ev.kind = "denied"
    /\ notice # "none"
    /\ ~isOrientationMode
    /\ \A i \in Inst : ~useOrientation[i]

\* The assets of the grid coordinates.
ValidImages ==
    [i \in Inst |-> {basePath(i) \o gridToFilename(I(px), I(py)) :
                        px \in Grid, py \in Grid}] @@ <<>>

\* C8 as stated: after a pointer, touch or orientation event, whatever its
\* numeric input, the displayed image is the asset of a grid coordinate.
C8_Original ==
    ev.kind \in {"mousemove", "touch", "deviceorientation"} =>
        \A i \in Inst : img[i] \in ValidImages[i]

\* C10: an instance that goes from disabled to enabled is uncalibrated; the
\* calibrated flag is cleared only by enabling; a reading sets the baseline
\* only when the instance is enabled and uncalibrated, and then calibrates
\* it; no other step changes the baseline.
Enabling(e) == e.kind \in {"click", "granted"}

NormalizedOf(v, g) == v.k = "num" /\ v.n * P_MAX = g * v.d

quantizeConfigured(pmin, pmax, step, val) ==
    LET raw == FAdd(I(pmin), FDiv(FMul(FAdd(val, I(1)), I(pmax - pmin)), I(2)))
        snapped == FMul(MathRound(FDiv(raw, I(step))), I(step))
    IN  clamp(snapped, I(pmin), I(pmax))

Configurations ==
    [pmin : {P_MIN, P_MIN + 1}, pmax : {P_MAX, P_MAX - 1}, step : 1..MaxStep,
     val : {Num(n, 2) : n \in -2..2}]

ConfigInit ==
    /\ Loaded
    /\ fin \in Configurations
    /\ fout = <<>>

\* Lines 1-5 and 31-49 hold no check of the constants: nothing is reported,
\* and the first sample is quantized with them as they are.
loadConfigured ==
    /\ fout = <<>>
    /\ fout' = <<[configError |-> FALSE,
                  p |-> quantizeConfigured(fin.pmin, fin.pmax, fin.step, fin.val)]>>
    /\ UNCHANGED <<tracker, fin>>

SpecConfig == ConfigInit /\ [][loadConfigured]_vars

\* STEP does not divide P_MAX - P_MIN.
BrokenGrid(c) == (c.pmax - c.pmin) % c.step # 0

Pointed == ev.kind \in {"mousemove", "touch"}
PositiveRect(i) == container(i).width > 0 /\ container(i).height > 0

\* nx = (pointerX - centerX) / (width / 2) and ny = (centerY - pointerY) /
\* (height / 2), as fractions of integers, for the pointer of the event.
PointerNx(i) == Num(2 * ev.a.n - 2 * container(i).left - container(i).width,
                    container(i).width)
PointerNy(i) == Num(2 * container(i).top + container(i).height - 2 * ev.b.n,
                    container(i).height)
PointerPx(i) == quantizeToGrid(PointerNx(i)).n
PointerPy(i) == quantizeToGrid(PointerNy(i)).n

DBeta(i) == OrZero(ev.a).n - baseOrientation[i].beta.n
DGamma(i) == OrZero(ev.b).n - baseOrientation[i].gamma.n
TiltPx(i) ==
    quantizeToGrid(clamp(Num(-DGamma(i), TILT_DIVISOR), I(-1), I(1))).n
TiltPy(i) ==
    quantizeToGrid(clamp(Num(-DBeta(i), TILT_DIVISOR), I(-1), I(1))).n

\* C14: after an orientation reading processed in tilt mode, the displayed
\* asset is that of quantize(clamp(-dGamma / 30), clamp(-dBeta / 30)) with
\* the deltas taken against the baseline; dGamma <= -30 gives px = 15,
\* dGamma >= 30 gives px = -15, dBeta >= 30 gives py = -15 and
\* dBeta <= -30 gives py = 15.
C14_TiltFormula ==
    \A i \in Inst : Tilting(i) =>
        /\ hasCalibrated[i]
        /\ img[i] = basePath(i) \o ExpectedName(<<TiltPx(i), TiltPy(i)>>)
        /\ DGamma(i) <= -TILT_DIVISOR => TiltPx(i) = P_MAX
        /\ DGamma(i) >= TILT_DIVISOR => TiltPx(i) = P_MIN
        /\ DBeta(i) >= TILT_DIVISOR => TiltPy(i) = P_MIN
        /\ DBeta(i) <= -TILT_DIVISOR => TiltPy(i) = P_MAX

\* The device has been rotated by the full 30 degrees of gamma away from
\* a baseline that is not 0, and by half of that in beta.
C14_Witness ==
    \E i \in Inst :
        /\ Tilting(i)
        /\ baseOrientation[i].gamma # I(0)
        /\ DGamma(i) = TILT_DIVISOR
        /\ 2 * DBeta(i) = TILT_DIVISOR
        /\ img[i] = basePath(i) \o "gaze_pxm15p0_pym6p0_256.webp"

(***************************************************************************)
(* The page-level mode flag against the flags of the instances.            *)
(***************************************************************************)
\* C15: in every reachable state isOrientationMode is true exactly when the
\* instances are in tilt mode.
C15_Original ==
    \A i \in Inst : isOrientationMode <=> useOrientation[i]

(***************************************************************************)
(* Clicks interleaved with the results of the permission requests.         *)
(***************************************************************************)
\* Tilt mode is off for the page and for every instance.
TiltOff == ~isOrientationMode /\ \A i \in Inst : ~useOrientation[i]

\* C16: once a click has disabled tilt mode it stays disabled until the
\* next click, whatever permission results arrive in between, and at most
\* one permission request is outstanding at a time.
C16_Original ==
    /\ clickedOff => TiltOff
    /\ pending <= 1

(***************************************************************************)
(* The state right after initialization.                                   *)
(***************************************************************************)
\* C17: before any input event every instance displays the centre asset
\* under its base path, whatever its container's rectangle is, with tilt
\* mode disabled and no calibration.
C17_Original ==
    ev.kind = "load" =>
        \A i \in Inst : /\ img[i] = CenterImage(i)
                        /\ ~useOrientation[i]
                        /\ ~hasCalibrated[i]

(***************************************************************************)
(* Orientation readings outside tilt mode.                                 *)
(***************************************************************************)
\* C18: an orientation reading received while an instance's tilt mode is
\* disabled leaves that instance's image, baseline, calibrated flag and
\* mode flag, and the page's mode flag, as they were.
C18_DisabledIgnoresReadings ==
    [][\A i \in Inst :
          (ev'.kind = "deviceorientation" /\ ~useOrientation[i]) =>
              /\ img'[i] = img[i]
              /\ baseOrientation'[i] = baseOrientation[i]
              /\ hasCalibrated'[i] = hasCalibrated[i]
              /\ useOrientation'[i] = useOrientation[i]
              /\ isOrientationMode' = isOrientationMode]_vars

\* A tilted reading has arrived at an instance that is out of tilt mode and
\* has no calibration: it still shows the image of the last pointer
\* position, the lower right corner.
C18_Witness ==
    \E i \in Inst :
        /\ ev.kind = "deviceorientation"
        /\ OrZero(ev.a) # I(0) /\ OrZero(ev.b) # I(0)
        /\ ~useOrientation[i]
        /\ ~hasCalibrated[i]
        /\ baseOrientation[i] = [beta |-> I(0), gamma |-> I(0)]
        /\ img[i] = basePath(i) \o "gaze_px15p0_pym15p0_256.webp"

=============================================================================
